---- MODULE Spec2Model ----
(***************************************************************************)
(* A model of rngmap: a map from an ordered key space to values, kept as   *)
(* a default value `val` plus an ordered store `map` of boundary entries   *)
(* (RangePoint -> value).  The store is the intrusive red-black tree of    *)
(* rangemap.rs, modelled as the sequence of its entries in iteration       *)
(* order; a cursor is an index into that sequence, the null cursor being   *)
(* Len(map) + 1.                                                           *)
(***************************************************************************)
EXTENDS Integers, Sequences, FiniteSets, TLC

VARIABLES val, map, model, probe

vars == <<val, map, model, probe>>

(***************************************************************************)
(* Bounds of the model.                                                    *)
(***************************************************************************)
MaxKey == 2

NumValues == 2

MaxEntries == 3

\* The keys range endpoints are drawn from, and the keys that are looked up:
\* one more on each side, so that the unbounded ends are looked at too.
Keys == 0..MaxKey

QueryKeys == (0 - 1)..(MaxKey + 1)

Values == 1..NumValues

(***************************************************************************)
(* std::ops::Bound<K> and Option<T>.                                       *)
(***************************************************************************)
Unbounded == [kind |-> "Unbounded"]

Included(k) == [kind |-> "Included", k |-> k]

Excluded(k) == [kind |-> "Excluded", k |-> k]

None == <<>>

Some(x) == <<x>>

unwrap(o) == o[1]

unwrap_or(o, d) == IF o = None THEN d ELSE o[1]

RangePoint == {Included(k) : k \in Keys} \cup {Excluded(k) : k \in Keys}

Bound == RangePoint \cup {Unbounded}

Ranges == [start : Bound, end : Bound]

(***************************************************************************)
(* The boundary point model.                                               *)
(***************************************************************************)
cmp_key(a, b) == IF a < b THEN "Less" ELSE IF a > b THEN "Greater" ELSE "Equal"

point(p) == p.k

\* partial_cmp with the two mixed cases of equal keys exchanged.
partial_cmp_swapped(self, other) ==
    LET ord == cmp_key(point(self), point(other))
    IN  CASE ord = "Greater" -> "Greater"
          [] ord = "Less" -> "Less"
          [] ord = "Equal" ->
               CASE self.kind = other.kind -> "Equal"
                 [] self.kind = "Included" /\ other.kind = "Excluded" -> "Greater"
                 [] self.kind = "Excluded" /\ other.kind = "Included" -> "Less"

\* The derived Ord: the variant first, in declaration order (Included before
\* Excluded), the inner keys only when the variants are the same.
discriminant(p) == IF p.kind = "Included" THEN 0 ELSE 1

cmp(self, other) ==
    IF discriminant(self) # discriminant(other)
    THEN cmp_key(discriminant(self), discriminant(other))
    ELSE cmp_key(point(self), point(other))

partial_cmp(self, other) ==
    LET ord == cmp_key(point(self), point(other))
    IN  CASE ord = "Greater" -> "Greater"
          [] ord = "Less" -> "Less"
          [] ord = "Equal" ->
               CASE self.kind = other.kind -> "Equal"
                 [] self.kind = "Included" /\ other.kind = "Excluded" -> "Less"
                 [] self.kind = "Excluded" /\ other.kind = "Included" -> "Greater"

lt(p, q) == partial_cmp(p, q) = "Less"

le(p, q) == partial_cmp(p, q) \in {"Less", "Equal"}

\* > taken as >=.
gt_or_equal(p, q) == partial_cmp(p, q) \in {"Greater", "Equal"}

gt(p, q) == partial_cmp(p, q) = "Greater"

from_ref_bound(bound) ==
    CASE bound.kind = "Included" -> Some(Included(bound.k))
      [] bound.kind = "Excluded" -> Some(Excluded(bound.k))
      [] bound.kind = "Unbounded" -> None

swap_bound(self) ==
    CASE self.kind = "Included" -> Excluded(self.k)
      [] self.kind = "Excluded" -> Included(self.k)

\* is_valid_range with start > end where the code has start >= end.
is_valid_range_strict(range) ==
    LET start == range.start
        end == range.end
    IN  CASE start.kind = "Included" /\ end.kind = "Included" /\ start.k > end.k -> FALSE
          [] /\ \/ start.kind = "Included" /\ end.kind = "Excluded"
                \/ start.kind = "Excluded" /\ end.kind = "Included"
                \/ start.kind = "Excluded" /\ end.kind = "Excluded"
             /\ start.k > end.k -> FALSE
          [] OTHER -> TRUE

is_valid_range(range) ==
    LET start == range.start
        end == range.end
    IN  CASE start.kind = "Included" /\ end.kind = "Included" /\ start.k > end.k -> FALSE
          [] /\ \/ start.kind = "Included" /\ end.kind = "Excluded"
                \/ start.kind = "Excluded" /\ end.kind = "Included"
                \/ start.kind = "Excluded" /\ end.kind = "Excluded"
             /\ start.k >= end.k -> FALSE
          [] OTHER -> TRUE

(***************************************************************************)
(* The ordered boundary store and its cursors.  insert places its entries  *)
(* with the cursor (insert_before), so the order of the store is whatever  *)
(* insert makes it; the searches of the tree (lower_bound_mut,             *)
(* upper_bound) and remove_until compare points with <, <= and >, that     *)
(* is, with partial_cmp.                                                   *)
(***************************************************************************)
Node(key, value) == [key |-> key, value |-> value]

null(m) == Len(m) + 1

\* A tree search for the first entry with start <= key.  The search ends
\* between an entry where it went right (start > key) and one where it went
\* left (start <= key); on an ordered store that place is unique, on a store
\* that is out of order it depends on the shape of the tree.
lower_bound_mut(m, start) ==
    {i \in 1..null(m) :
        /\ i = null(m) \/ le(start, m[i].key)
        /\ i = 1 \/ ~le(start, m[i - 1].key)}

\* The cursor left at the null position, not at the first entry.
front_mut_null(m) == null(m)

front_mut(m) == 1

\* The last entry with key <= bound, 0 for the null cursor.
upper_bound(m, bound) ==
    {i \in 0..Len(m) :
        /\ i = 0 \/ ~lt(bound, m[i].key)
        /\ i = Len(m) \/ lt(bound, m[i + 1].key)}

\* remove that unlinks the entry under the cursor and the one after it.
remove_two(m, i) == SubSeq(m, 1, i - 1) \o SubSeq(m, i + 2, Len(m))

remove(m, i) == SubSeq(m, 1, i - 1) \o SubSeq(m, i + 1, Len(m))

insert_before(m, i, node) == SubSeq(m, 1, i - 1) \o <<node>> \o SubSeq(m, i, Len(m))

peek_prev(m, i) == IF i > 1 THEN Some(m[i - 1]) ELSE None

get(m, i) == IF i <= Len(m) THEN Some(m[i]) ELSE None

\* The loop of remove_until; steps counts the iterations that remove an entry.
RECURSIVE remove_until_loop(_, _, _, _)
remove_until_loop(m, i, upper_limit, last_val) ==
    IF get(m, i) = None
    THEN [map |-> m, last_val |-> last_val, steps |-> 0]
    ELSE IF upper_limit # None /\ gt(m[i].key, unwrap(upper_limit))
         THEN [map |-> m, last_val |-> last_val, steps |-> 0]
         ELSE LET rest == remove_until_loop(remove(m, i), i, upper_limit, Some(m[i].value))
              IN  [rest EXCEPT !.steps = rest.steps + 1]

remove_until(m, i, upper_limit) == remove_until_loop(m, i, upper_limit, None)

(***************************************************************************)
(* RangeMap::insert, from a given position of the cursor.                  *)
(***************************************************************************)
\* end_val: the value of the last entry removed, else the default.
insert_end_val(v0, m0, cursor, end) ==
    unwrap_or(remove_until(m0, cursor, end).last_val, v0)

\* The store after the removal and the conditional insertion of the end point;
\* the cursor is on the same index afterwards (insert_before, then move_prev).
insert_end_point(v0, m0, cursor, end, value) ==
    LET m1 == remove_until(m0, cursor, end).map
        end_val == insert_end_val(v0, m0, cursor, end)
        add_point ==
            IF end = None THEN FALSE
            ELSE IF get(m1, cursor) # None
                 THEN value # end_val /\ end_val # m1[cursor].value
                 ELSE value # end_val
    IN  IF add_point
        THEN insert_before(m1, cursor, Node(swap_bound(unwrap(end)), end_val))
        ELSE m1

\* insert_at that never inserts the entry of the start point.
insert_at_no_start(v0, m0, cursor, start, end, value) ==
    LET m2 == insert_end_point(v0, m0, cursor, end, value)
    IN  IF start # None
        THEN [val |-> v0, map |-> m2]
        ELSE [val |-> value, map |-> m2]

\* insert_at without the merge check of the start point.
insert_at_always_start(v0, m0, cursor, start, end, value) ==
    LET m2 == insert_end_point(v0, m0, cursor, end, value)
    IN  IF start # None
        THEN [val |-> v0, map |-> insert_before(m2, cursor, Node(unwrap(start), value))]
        ELSE [val |-> value, map |-> m2]

insert_at(v0, m0, cursor, start, end, value) ==
    LET m2 == insert_end_point(v0, m0, cursor, end, value)
        prev == peek_prev(m2, cursor)
        prev_val == IF prev = None THEN v0 ELSE unwrap(prev).value
    IN  IF start # None
        THEN [val |-> v0,
              map |-> IF value # prev_val
                      THEN insert_before(m2, cursor, Node(unwrap(start), value))
                      ELSE m2]
        ELSE [val |-> value, map |-> m2]

\* The places insert positions its cursor at.
insert_cursors(m0, range) ==
    LET start == from_ref_bound(range.start)
    IN  IF start # None THEN lower_bound_mut(m0, unwrap(start)) ELSE {front_mut(m0)}

\* The results of insert(range, value) on the map (v0, m0).
insert(v0, m0, range, value) ==
    LET start == from_ref_bound(range.start)
        end == from_ref_bound(range.end)
    IN  {insert_at(v0, m0, c, start, end, value) : c \in insert_cursors(m0, range)}

\* The values index(key) can return on the map (v0, m0).
index(v0, m0, key) ==
    LET bound == Included(key)
    IN  {IF i = 0 THEN v0 ELSE m0[i].value : i \in upper_bound(m0, bound)}

(***************************************************************************)
(* The section iterator.                                                   *)
(***************************************************************************)
kv_ref(node) ==
    [start |-> CASE node.key.kind = "Included" -> Included(node.key.k)
                 [] node.key.kind = "Excluded" -> Excluded(node.key.k),
     value |-> node.value]

iter(v0, m0) == [next |-> Some([start |-> Unbounded, value |-> v0]), pos |-> 1, map |-> m0]

\* Iter::next with the end bound taken from the next point without the flip.
Iter_next_no_flip(it) ==
    LET fetched == IF it.pos <= Len(it.map) THEN Some(kv_ref(it.map[it.pos])) ELSE None
        old == it.next
        self == [next |-> fetched,
                 pos |-> IF it.pos <= Len(it.map) THEN it.pos + 1 ELSE it.pos,
                 map |-> it.map]
        end == IF self.next = None THEN Unbounded ELSE unwrap(self.next).start
    IN  [it |-> self,
         item |-> IF old = None THEN None
                  ELSE Some([start |-> unwrap(old).start, end |-> end,
                             value |-> unwrap(old).value])]

Iter_next(it) ==
    LET fetched == IF it.pos <= Len(it.map) THEN Some(kv_ref(it.map[it.pos])) ELSE None
        old == it.next
        self == [next |-> fetched,
                 pos |-> IF it.pos <= Len(it.map) THEN it.pos + 1 ELSE it.pos,
                 map |-> it.map]
        end == IF self.next = None THEN Unbounded
               ELSE CASE unwrap(self.next).start.kind = "Included" ->
                           Excluded(unwrap(self.next).start.k)
                      [] unwrap(self.next).start.kind = "Excluded" ->
                           Included(unwrap(self.next).start.k)
                      [] OTHER -> Unbounded
    IN  [it |-> self,
         item |-> IF old = None THEN None
                  ELSE Some([start |-> unwrap(old).start, end |-> end,
                             value |-> unwrap(old).value])]

RECURSIVE collect(_)
collect(it) ==
    LET r == Iter_next(it)
    IN  IF r.item = None THEN <<>> ELSE <<unwrap(r.item)>> \o collect(r.it)

\* The sections a fresh iter() yields until it returns None.
Sections(v0, m0) == collect(iter(v0, m0))

(***************************************************************************)
(* The reference: a total function key -> value under plain overwrite.     *)
(***************************************************************************)
Contains(range, k) ==
    /\ \/ range.start.kind = "Unbounded"
       \/ range.start.kind = "Included" /\ range.start.k <= k
       \/ range.start.kind = "Excluded" /\ range.start.k < k
    /\ \/ range.end.kind = "Unbounded"
       \/ range.end.kind = "Included" /\ k <= range.end.k
       \/ range.end.kind = "Excluded" /\ k < range.end.k

Overwrite(f, range, value) ==
    [k \in QueryKeys |-> IF Contains(range, k) THEN value ELSE f[k]]

(***************************************************************************)
(* The state machine: a new map, then any sequence of inserts.             *)
(***************************************************************************)
NoProbe == [op |-> "none"]

Init ==
    /\ val \in Values
    /\ map = <<>>
    /\ model = [k \in QueryKeys |-> val]
    /\ probe = NoProbe

Insert(range, value) ==
    \E res \in insert(val, map, range, value) :
        /\ Len(res.map) <= MaxEntries
        /\ val' = res.val
        /\ map' = res.map
        /\ model' = Overwrite(model, range, value)
        /\ UNCHANGED probe

Next == \E range \in Ranges, value \in Values : Insert(range, value)

Spec == Init /\ [][Next]_vars

\* The same, for callers that pass valid ranges only.
InsertValid(range, value) == is_valid_range(range) /\ Insert(range, value)

NextValid == \E range \in Ranges, value \in Values : InsertValid(range, value)

SpecValid == Init /\ [][NextValid]_vars

(***************************************************************************)
(* The boundary point model on its own: is_valid_range is applied to a     *)
(* range, partial_cmp and swap_bound to three points, drawn at the start.  *)
(***************************************************************************)
RangeProbes == [op : {"is_valid_range"}, range : Ranges, result : {None}]

PointProbes == [op : {"partial_cmp"}, p : RangePoint, q : RangePoint, r : RangePoint,
                result : {None}]

InitPoint ==
    /\ val \in Values
    /\ map = <<>>
    /\ model = [k \in QueryKeys |-> val]
    /\ probe \in RangeProbes \cup PointProbes

CheckRange ==
    /\ probe.op = "is_valid_range"
    /\ probe.result = None
    /\ probe' = [probe EXCEPT !.result = Some(is_valid_range(probe.range))]
    /\ UNCHANGED <<val, map, model>>

ComparePoints ==
    /\ probe.op = "partial_cmp"
    /\ probe.result = None
    /\ probe' = [probe EXCEPT !.result =
                    Some([pq |-> partial_cmp(probe.p, probe.q),
                          qp |-> partial_cmp(probe.q, probe.p),
                          qr |-> partial_cmp(probe.q, probe.r),
                          pr |-> partial_cmp(probe.p, probe.r),
                          cmp_pq |-> cmp(probe.p, probe.q),
                          swapped |-> swap_bound(probe.p),
                          back |-> swap_bound(swap_bound(probe.p))])]
    /\ UNCHANGED <<val, map, model>>

NextPoint == CheckRange \/ ComparePoints

SpecPoint == InitPoint /\ [][NextPoint]_vars

(***************************************************************************)
(* Properties of the map.                                                  *)
(***************************************************************************)
\* C1: after every insert the boundary points of the store are strictly
\* increasing in iteration order (key first, Included(k) < Excluded(k)); no
\* two entries have the same point.
OrderingInvariant ==
    \A i \in 1..(Len(map) - 1) : lt(map[i].key, map[i + 1].key)

\* C2: after every insert no two adjacent values are equal: the default
\* differs from the first entry's value and consecutive entries differ.
NoEqualNeighbours ==
    /\ Len(map) > 0 => val # map[1].value
    /\ \A i \in 1..(Len(map) - 1) : map[i].value # map[i + 1].value

\* C3: index(k) is the value of the most recent insert whose range contains
\* k, the default of the new map if there is none: the map agrees with the
\* reference function updated by plain overwrite.
LastWriteWins ==
    \A k \in QueryKeys : index(val, map, k) = {model[k]}

\* C4: in any reachable state an insert with an invalid range leaves the
\* default value and the sequence of boundary entries unchanged.
InvalidRangeIsNoOp ==
    \A range \in Ranges, value \in Values :
        ~is_valid_range(range) =>
            insert(val, map, range, value) = {[val |-> val, map |-> map]}

\* C5: in any reachable state, insert(range, value) performed twice in a
\* row yields the same default and entries as performing it once (stated
\* here for the valid ranges, where an insert is meant to act).
InsertIdempotent ==
    \A range \in Ranges, value \in Values :
      is_valid_range(range) =>
        \A once \in insert(val, map, range, value) :
            insert(once.val, once.map, range, value) = {once}

HasKey(range) == \E k \in QueryKeys : Contains(range, k)

PointsOf(m) == {m[i].key : i \in 1..Len(m)}

\* C6: in any reachable state, if index(k) already equals v for every key k
\* of a valid range (that has a key), insert(range, v) creates no boundary
\* entry: none at a point not stored before, and the store does not grow.
RedundantInsertAddsNothing ==
    \A range \in Ranges, value \in Values :
        (/\ is_valid_range(range)
         /\ HasKey(range)
         /\ \A k \in QueryKeys : Contains(range, k) => index(val, map, k) = {value})
        => \A res \in insert(val, map, range, value) :
               /\ PointsOf(res.map) \subseteq PointsOf(map)
               /\ Len(res.map) <= Len(map)

SectionRange(s) == [start |-> s.start, end |-> s.end]

\* C7: in every reachable state the sections of iter() partition the key
\* space (every key in exactly one section, sections in increasing key
\* order) and index(k) is the value of the section that contains k.
CoverageRoundTrip ==
    LET secs == Sections(val, map)
    IN  /\ \A k \in QueryKeys :
              /\ Cardinality({i \in 1..Len(secs) : Contains(SectionRange(secs[i]), k)}) = 1
              /\ \A i \in 1..Len(secs) :
                    Contains(SectionRange(secs[i]), k) => index(val, map, k) = {secs[i].value}
        /\ \A i, j \in 1..Len(secs) : \A k, l \in QueryKeys :
              (/\ i < j
               /\ Contains(SectionRange(secs[i]), k)
               /\ Contains(SectionRange(secs[j]), l)) => k < l

\* C10: in any reachable state, for every valid range and every key k not
\* contained in it, index(k) after insert(range, value) is index(k) before.
InsertFrame ==
    \A range \in Ranges, value \in Values :
        is_valid_range(range) =>
            \A res \in insert(val, map, range, value) :
                \A k \in QueryKeys :
                    ~Contains(range, k) => index(res.val, res.map, k) = index(val, map, k)

EndValWhenNothingRemoved ==
    \A range \in Ranges :
        is_valid_range(range) =>
            \A c \in insert_cursors(map, range) :
                remove_until(map, c, from_ref_bound(range.end)).steps = 0 =>
                    insert_end_val(val, map, c, from_ref_bound(range.end))
                        = (IF peek_prev(map, c) # None
                           THEN unwrap(peek_prev(map, c)).value
                           ELSE val)

InExtent(p, start, end) ==
    /\ start = None \/ le(unwrap(start), p)
    /\ end = None \/ le(p, swap_bound(unwrap(end)))

Outside(m, start, end) ==
    LET Test(e) == ~InExtent(e.key, start, end)
    IN  SelectSeq(m, Test)

\* C13: in any reachable state, for a valid range, insert removes exactly
\* the entries whose point p has start <= p <= end.swap_bound() (unbounded
\* sides unrestricted); every other entry is still in the store, with the
\* same value, after the insert.
RemovalExtent ==
    \A range \in Ranges, value \in Values :
        is_valid_range(range) =>
            LET start == from_ref_bound(range.start)
                end == from_ref_bound(range.end)
            IN  /\ \A c \in insert_cursors(map, range) :
                      remove_until(map, c, end).map = Outside(map, start, end)
                /\ \A res \in insert(val, map, range, value) :
                      \A i \in 1..Len(map) :
                          ~InExtent(map[i].key, start, end) =>
                              \E j \in 1..Len(res.map) : res.map[j] = map[i]

Limits == {None} \cup {Some(p) : p \in RangePoint}

AboveLimit(m, limit) ==
    LET Test(e) == limit # None /\ partial_cmp(e.key, unwrap(limit)) = "Greater"
    IN  SelectSeq(m, Test)

\* The first index at or after the cursor whose key is above the limit, the
\* null cursor if there is none.
StopIndex(m, i, limit) ==
    LET above == {j \in i..Len(m) :
                     limit # None /\ partial_cmp(m[j].key, unwrap(limit)) = "Greater"}
    IN  IF above = {} THEN null(m) ELSE CHOOSE j \in above : \A l \in above : j <= l

\* C14: remove_until removes the maximal run of entries from the cursor with
\* keys <= limit (all of them when the limit is None), stops at the first
\* key > limit or at the end, returns the value of the last entry removed or
\* None, and leaves the entries before the cursor and those above the limit
\* unchanged and in order.
RemoveUntilContract ==
    \A i \in 1..null(map), limit \in Limits :
        LET res == remove_until(map, i, limit)
            stop == StopIndex(map, i, limit)
        IN  /\ res.map = SubSeq(map, 1, i - 1) \o SubSeq(map, stop, Len(map))
            /\ res.last_val = (IF stop = i THEN None ELSE Some(map[stop - 1].value))
            /\ SubSeq(res.map, 1, i - 1) = SubSeq(map, 1, i - 1)
            /\ AboveLimit(res.map, limit) = AboveLimit(map, limit)

RemoveUntilWitness ==
    \E i \in 2..Len(map), limit \in Limits :
        LET res == remove_until(map, i, limit)
        IN  /\ limit # None
            /\ res.steps >= 1
            /\ res.last_val # None
            /\ Len(res.map) >= i

FullRange == [start |-> Unbounded, end |-> Unbounded]

\* C15: in any reachable state, insert(.., v) leaves the store with no
\* boundary entries and the default equal to v, so index(k) = v for every k.
FullyUnboundedInsert ==
    \A value \in Values :
        /\ insert(val, map, FullRange, value) = {[val |-> value, map |-> <<>>]}
        /\ \A res \in insert(val, map, FullRange, value) :
              \A k \in QueryKeys : index(res.val, res.map, k) = {value}

FullyUnboundedWitness ==
    /\ Len(map) >= 2
    /\ \E value \in Values :
          /\ value # val
          /\ remove_until(map, front_mut(map), None).steps = Len(map)
          /\ [val |-> value, map |-> <<>>] \in insert(val, map, FullRange, value)

\* The value of the entry immediately before the cursor, else the default.
ValueBefore(v0, m, c) == IF c > 1 THEN m[c - 1].value ELSE v0

\* C16: an insert with an unbounded start sets the default to the inserted
\* value and inserts no entry for the start; an insert with a bounded start
\* leaves the default unchanged and inserts an entry at start with the
\* inserted value iff that value differs from the value of the entry before
\* the cursor (from the default if there is none).
DefaultValueHandling ==
    \A range \in Ranges, value \in Values :
        \A c \in insert_cursors(map, range) :
            LET start == from_ref_bound(range.start)
                end == from_ref_bound(range.end)
                before == insert_end_point(val, map, c, end, value)
                res == insert_at(val, map, c, start, end, value)
            IN  /\ range.start.kind = "Unbounded" =>
                      /\ res.val = value
                      /\ res.map = before
                /\ range.start.kind # "Unbounded" =>
                      /\ res.val = val
                      /\ value # ValueBefore(val, before, c) =>
                            /\ Len(res.map) = Len(before) + 1
                            /\ res.map[c] = Node(range.start, value)
                            /\ remove(res.map, c) = before
                      /\ value = ValueBefore(val, before, c) => res.map = before

DefaultValueWitness ==
    /\ Len(map) >= 2
    /\ \E range \in Ranges, value \in Values :
          /\ range.start.kind = "Unbounded"
          /\ value # val
          /\ \A res \in insert(val, map, range, value) : res.val = value
    /\ \E range \in Ranges, value \in Values : \E c \in insert_cursors(map, range) :
          /\ range.start.kind # "Unbounded"
          /\ c > 1
          /\ value = ValueBefore(val, insert_end_point(val, map, c, from_ref_bound(range.end), value), c)
          /\ value # val
    /\ \E range \in Ranges, value \in Values : \E c \in insert_cursors(map, range) :
          /\ range.start.kind # "Unbounded"
          /\ c > 1
          /\ value # ValueBefore(val, insert_end_point(val, map, c, from_ref_bound(range.end), value), c)
          /\ value = val

\* The entries with the greatest point <= bound.
GreatestBelow(m, bound) ==
    {i \in 1..Len(m) :
        /\ le(m[i].key, bound)
        /\ \A j \in 1..Len(m) : le(m[j].key, bound) => le(m[j].key, m[i].key)}

\* C17: in every map state index(key) returns the value of the stored entry
\* with the greatest point <= Included(key), the default when there is no
\* such entry.  (Stated for the most favourable outcome of the tree search:
\* some value index can return is the value of such an entry.)
PointQuery ==
    \A k \in QueryKeys :
        LET g == GreatestBelow(map, Included(k))
            expected == IF g = {} THEN {val} ELSE {map[i].value : i \in g}
        IN  index(val, map, k) \cap expected # {}

\* The iterator after n calls of next.
RECURSIVE IterAfter(_, _)
IterAfter(it, n) == IF n = 0 THEN it ELSE IterAfter(Iter_next(it).it, n - 1)

Flipped(p) == IF p.kind = "Included" THEN Excluded(p.k) ELSE Included(p.k)

\* C18: for a map with n entries a fresh iter() yields n+1 sections and then
\* None; the first starts Unbounded with the default, section i+1 starts at
\* the i-th entry's point with its value, each section ends at the next
\* entry's point with the inclusion flipped, the last ends Unbounded.
SectionIteratorShape ==
    LET secs == Sections(val, map)
        n == Len(map)
    IN  /\ Len(secs) = n + 1
        /\ \A i \in 0..n : Iter_next(IterAfter(iter(val, map), i)).item = Some(secs[i + 1])
        /\ Iter_next(IterAfter(iter(val, map), n + 1)).item = None
        /\ Iter_next(IterAfter(iter(val, map), n + 2)).item = None
        /\ secs[1].start = Unbounded
        /\ secs[1].value = val
        /\ \A i \in 1..n :
              /\ secs[i + 1].start = map[i].key
              /\ secs[i + 1].value = map[i].value
              /\ secs[i].end = Flipped(map[i].key)
        /\ secs[n + 1].end = Unbounded
        /\ IterAfter(iter(val, map), n + 1).map = map

SectionIteratorWitness ==
    /\ Len(map) >= 2
    /\ \E i, j \in 1..Len(map) : map[i].key.kind = "Included" /\ map[j].key.kind = "Excluded"
    /\ Len(Sections(val, map)) = Len(map) + 1
    /\ Sections(val, map)[1].end.kind # "Unbounded"

\* C20: for every reachable store and every range insert runs to completion:
\* each iteration of the loop of remove_until removes one entry, the loop
\* ends after at most as many iterations as there were entries at or after
\* the cursor, and at most two entries are inserted afterwards.
InsertTerminates ==
    \A range \in Ranges, value \in Values :
        \A c \in insert_cursors(map, range) :
            LET start == from_ref_bound(range.start)
                end == from_ref_bound(range.end)
                r == remove_until(map, c, end)
                res == insert_at(val, map, c, start, end, value)
            IN  /\ r.steps \in 0..(Len(map) - c + 1)
                /\ Len(r.map) = Len(map) - r.steps
                /\ Len(res.map) - Len(r.map) \in 0..2

InsertTerminatesWitness ==
    /\ Len(map) >= 2
    /\ \E range \in Ranges, value \in Values :
          \E c \in insert_cursors(map, range) :
              LET start == from_ref_bound(range.start)
                  end == from_ref_bound(range.end)
                  r == remove_until(map, c, end)
                  res == insert_at(val, map, c, start, end, value)
              IN  /\ c = 1
                  /\ r.steps = Len(map)
                  /\ Len(res.map) = 2

(***************************************************************************)
(* Properties of the boundary point model.                                 *)
(***************************************************************************)
ValidAsStated(range) ==
    \/ range.start.kind = "Unbounded"
    \/ range.end.kind = "Unbounded"
    \/ /\ range.start.kind = "Included"
       /\ range.end.kind = "Included"
       /\ range.start.k <= range.end.k
    \/ /\ range.start.kind = "Excluded" \/ range.end.kind = "Excluded"
       /\ range.start.k < range.end.k

\* C8: is_valid_range returns true iff either bound is unbounded, or both
\* are inclusive and start <= end, or at least one is exclusive and
\* start < end.
RangeValidity ==
    (probe.op = "is_valid_range" /\ probe.result # None)
        => unwrap(probe.result) = ValidAsStated(probe.range)

RangeValidityWitness ==
    /\ probe.op = "is_valid_range"
    /\ probe.result = Some(FALSE)
    /\ probe.range.start.kind = "Excluded"
    /\ probe.range.end.kind = "Included"
    /\ probe.range.start.k = probe.range.end.k

\* C9: the comparison of boundary points orders by inner key first and, on
\* equal keys, Included(k) < Excluded(k); it is a total order, and
\* swap_bound flips the inclusion and is an involution.
PointOrder ==
    (probe.op = "partial_cmp" /\ probe.result # None) =>
        LET res == unwrap(probe.result)
            p == probe.p
            q == probe.q
        IN  /\ p.k < q.k => res.pq = "Less"
            /\ p.k > q.k => res.pq = "Greater"
            /\ (p.k = q.k /\ p.kind = "Included" /\ q.kind = "Excluded") => res.pq = "Less"
            /\ (p.k = q.k /\ p.kind = "Excluded" /\ q.kind = "Included") => res.pq = "Greater"
            /\ res.pq = "Equal" <=> p = q
            /\ res.pq = "Less" <=> res.qp = "Greater"
            /\ res.pq = "Greater" <=> res.qp = "Less"
            /\ (res.pq = "Less" /\ res.qr = "Less") => res.pr = "Less"
            /\ (res.pq \in {"Less", "Equal"} /\ res.qr \in {"Less", "Equal"})
                   => res.pr \in {"Less", "Equal"}
            /\ res.swapped.k = p.k
            /\ res.swapped.kind = (IF p.kind = "Included" THEN "Excluded" ELSE "Included")
            /\ res.back = p

PointOrderWitness ==
    /\ probe.op = "partial_cmp"
    /\ probe.result # None
    /\ probe.p.kind = "Included"
    /\ probe.q.kind = "Excluded"
    /\ probe.p.k = probe.q.k
    /\ probe.r.k > probe.q.k
    /\ unwrap(probe.result).pq = "Less"
    /\ unwrap(probe.result).pr = "Less"

\* C19: for all boundary points p and q the derived Ord comparison cmp(p, q)
\* and the hand-written comparison partial_cmp(p, q) give the same ordering.
ComparisonConsistency ==
    (probe.op = "partial_cmp" /\ probe.result # None) =>
        unwrap(probe.result).cmp_pq = unwrap(probe.result).pq

====
